---- MODULE Spec2Model ----
(***************************************************************************)
(* A model of common/cli/mail.go: MailSend (the SMTP session driver),      *)
(* MailRun (size estimate, sink selection, compose, send),                 *)
(* MailConfig.Writer / attach (the MIME composer) and base64Wrap.          *)
(*                                                                         *)
(* Strings that the code splits (To, Attachments) are sequences of         *)
(* one-character strings, so that strings.Split is computed, not assumed.  *)
(* The SMTP server and the file system are the environment: every command  *)
(* may be accepted or rejected, every file may exist or not.               *)
(***************************************************************************)
EXTENDS Integers, Sequences, FiniteSets, TLC

\* ---------------------------------------------------------------- bounds
MaxToLen == 3          \* longest To string, in characters
MaxBody  == 2          \* longest body handed directly to MailSend, in bytes
MaxAttLen == 3         \* longest Attachments string, in characters
MaxFileLen == 120      \* longest attachment file given to base64Wrap, in bytes
ShortRead == 20        \* the byte count of a read that returns less than asked
MaxRoom == 14          \* the most tokens a sink takes before it is full
MaxChunks == 2         \* the writes Writer makes in a concurrent MailRun

\* ---------------------------------------------------------------- strings
Comma == ","
AddrChars == {"b", "c"}
ToChars == AddrChars \cup {Comma}

RECURSIVE SeqsUpTo(_, _)
SeqsUpTo(S, n) ==
  IF n = 0 THEN {<<>>}
  ELSE LET prev == SeqsUpTo(S, n - 1)
       IN prev \cup {Append(s, c) : s \in {p \in prev : Len(p) = n - 1}, c \in S}

\* strings.Split(s, ","): the fields between the commas; never empty,
\* Split("") is the one-element list holding the empty string.
RECURSIVE Split(_)
Split(s) ==
  IF \A k \in 1..Len(s) : s[k] # Comma THEN <<s>>
  ELSE LET k == CHOOSE k \in 1..Len(s) :
                   s[k] = Comma /\ \A j \in 1..(k - 1) : s[j] # Comma
       IN <<SubSeq(s, 1, k - 1)>> \o Split(SubSeq(s, k + 1, Len(s)))

\* ---------------------------------------------------------------- values
Nil == <<"nil">>
NoRet == <<"none">>
Err(what) == <<"err", what>>

\* The byte stream x, y, x, y, ... cut to n bytes: a body given to MailSend.
RawBody(n) == [k \in 1..n |-> <<"raw", IF k % 2 = 1 THEN "x" ELSE "y">>]

VARIABLES
  entry,     \* the function the caller invoked: MailSend, MailRun, Writer, base64Wrap
  msg,       \* the MailConfig
  starttls,  \* the server advertises the STARTTLS extension
  body,      \* the io.Reader handed to MailSend: [kind, data, off]
  pc,        \* position in the code
  to,        \* MailSend's local: strings.Split(msg.To, ",")
  i,         \* MailSend's range index over to
  log,       \* the SMTP exchanges so far, each [cmd, arg, ok]
  wire,      \* the bytes streamed to the server in the DATA phase
  conn,      \* the client's connection: "none", "open", "closed"
  tls,       \* the connection was upgraded to TLS
  sendRet,   \* MailSend's return value
  fs,        \* the file system: path -> size of the file, Missing when absent
  size,      \* MailRun's local: the estimate MailConfig.Len returned
  tmp,       \* MailRun's temporary file on disk: "none", "present", "removed"
  handle,    \* the *os.File MailRun created: "none", "open", "closed"
  runRet,    \* MailRun's return value
  list,      \* Writer's local: strings.Split(e.Attachments, ",")
  j,         \* Writer's range index over list
  writerRet, \* Writer's return value
  room,      \* how many more tokens the sink (the disk, for a temporary
             \* file) takes before its writes fail
  sinkErr,   \* a write to the sink has returned an error
  partErr,   \* multipart.Writer w: the write error kept by its last part
  src,       \* base64Wrap: the bytes of the reader r
  rd,        \* base64Wrap: how many bytes of r were read
  buf,       \* base64Wrap: the 57-byte array b
  out,       \* base64Wrap: the characters written to w
  b64Ret,    \* base64Wrap's return value
  first,     \* the caller's copy of the payload of its first call of Writer
  round,     \* which call of Writer the caller is in: 1 or 2
  cpc,       \* two goroutines in MailRun: the position of each
  cfile,     \* ... the inode its *os.File refers to, 0 when it has none open
  coff,      \* ... the offset of its *os.File
  csent,     \* ... what its MailSend streamed in the DATA phase
  dirent,    \* the inode the name ".<pid>.tmp" refers to, 0 when there is none
  idata      \* the content of every inode created so far

callerVars == <<first, round>>
concVars == <<cpc, cfile, coff, csent, dirent, idata>>
envVars == <<entry, msg, starttls, fs, callerVars, concVars>>
sendVars == <<to, i, log, wire, conn, tls, sendRet>>
runVars == <<size, tmp, handle, runRet>>
wrVars == <<list, j, writerRet, room, sinkErr, partErr>>
b64Vars == <<src, rd, buf, out, b64Ret>>
vars == <<envVars, body, pc, sendVars, runVars, wrVars, b64Vars>>

\* what MailSend never touches
others == <<envVars, runVars, wrVars, b64Vars>>

Seekable(b) == b.kind \in {"osfile", "seeker"}

\* ---------------------------------------------------------------- MailSend
Issue(cmd, arg, ok) == log' = Append(log, [cmd |-> cmd, arg |-> arg, ok |-> ok])

\* `return err` after the defer of line 68 was registered
SendFail(what) ==
  /\ sendRet' = Err(what)
  /\ pc' = "Defer"

\* lines 60-63
SendEntry ==
  /\ pc = "Send"
  /\ to' = Split(msg.To)
  /\ IF msg.From = "" \/ Len(to') = 0
     THEN sendRet' = Err("config") /\ pc' = "SendRet"
     ELSE sendRet' = sendRet /\ pc' = "Dial"
  /\ UNCHANGED <<others, body, i, log, wire, conn, tls>>

\* lines 64-68
SendDial ==
  /\ pc = "Dial"
  /\ \E ok \in BOOLEAN :
       /\ Issue("DIAL", <<>>, ok)
       /\ IF ok
          THEN conn' = "open" /\ pc' = "Hello" /\ sendRet' = sendRet
          ELSE conn' = conn /\ pc' = "SendRet" /\ sendRet' = Err("DIAL")
  /\ UNCHANGED <<others, body, to, i, wire, tls>>

\* lines 70-73
SendHello ==
  /\ pc = "Hello"
  /\ \E ok \in BOOLEAN :
       /\ Issue("HELO", <<>>, ok)
       /\ IF ok THEN pc' = "StartTLS" /\ sendRet' = sendRet ELSE SendFail("HELO")
  /\ UNCHANGED <<others, body, to, i, wire, conn, tls>>

\* a failed upgrade that falls back to the plaintext connection
StartTLSResult_Fallback(ok) ==
  tls' = (tls \/ ok) /\ pc' = "Auth" /\ sendRet' = sendRet

StartTLSResult(ok) ==
  IF ok THEN tls' = TRUE /\ pc' = "Auth" /\ sendRet' = sendRet
  ELSE tls' = tls /\ SendFail("STARTTLS")

\* lines 75-80
SendStartTLS ==
  /\ pc = "StartTLS"
  /\ IF starttls
     THEN \E ok \in BOOLEAN : Issue("STARTTLS", <<>>, ok) /\ StartTLSResult(ok)
     ELSE UNCHANGED <<log, tls, sendRet>> /\ pc' = "Auth"
  /\ UNCHANGED <<others, body, to, i, wire, conn>>

\* lines 82-84
SendAuth ==
  /\ pc = "Auth"
  /\ \E ok \in BOOLEAN :
       /\ Issue("AUTH", <<>>, ok)
       /\ IF ok THEN pc' = "Mail" /\ sendRet' = sendRet ELSE SendFail("AUTH")
  /\ UNCHANGED <<others, body, to, i, wire, conn, tls>>

\* lines 86-88, and the entry of the loop of line 90
SendMail ==
  /\ pc = "Mail"
  /\ \E ok \in BOOLEAN :
       /\ Issue("MAIL", <<msg.From>>, ok)
       /\ IF ok
          THEN /\ pc' = IF Len(to) = 0 THEN "Data" ELSE "Rcpt"
               /\ i' = 1
               /\ sendRet' = sendRet
          ELSE i' = i /\ SendFail("MAIL")
  /\ UNCHANGED <<others, body, to, wire, conn, tls>>

\* a loop that goes on to the next recipient after a rejection
RcptResult_Continue(ok) ==
  /\ i' = i + 1
  /\ pc' = IF i + 1 > Len(to) THEN "Data" ELSE "Rcpt"
  /\ sendRet' = sendRet

RcptResult(ok) ==
  IF ok
  THEN /\ i' = i + 1
       /\ pc' = IF i + 1 > Len(to) THEN "Data" ELSE "Rcpt"
       /\ sendRet' = sendRet
  ELSE i' = i /\ SendFail("RCPT")

\* lines 90-94: one iteration of the loop
SendRcpt ==
  /\ pc = "Rcpt"
  /\ \E ok \in BOOLEAN : Issue("RCPT", to[i], ok) /\ RcptResult(ok)
  /\ UNCHANGED <<others, body, to, wire, conn, tls>>

\* the error of client.Data() left unchecked
DataResult_Unchecked(ok) == pc' = "Copy" /\ sendRet' = sendRet

DataResult(ok) ==
  IF ok THEN pc' = "Copy" /\ sendRet' = sendRet ELSE SendFail("DATA")

\* lines 96-99
SendData ==
  /\ pc = "Data"
  /\ \E ok \in BOOLEAN : Issue("DATA", <<>>, ok) /\ DataResult(ok)
  /\ UNCHANGED <<others, body, to, i, wire, conn, tls>>

\* no rewind: the copy starts wherever the offset is
CopyStart_NoSeek(b) == b.off

\* lines 101-103: the offset io.Copy starts to read at
CopyStart(b) == IF Seekable(b) THEN 0 ELSE b.off

\* lines 101-108: rewind, then io.Copy; a failed copy has streamed a prefix
SendCopy ==
  /\ pc = "Copy"
  /\ LET from == CopyStart(body)
         rest == SubSeq(body.data, from + 1, Len(body.data))
     IN \E ok \in BOOLEAN, k \in 0..Len(rest) :
          /\ ok => k = Len(rest)
          /\ Issue("BODY", <<>>, ok)
          /\ wire' = wire \o SubSeq(rest, 1, k)
          /\ body' = [body EXCEPT !.off = from + k]
          /\ IF ok THEN pc' = "DataEnd" /\ sendRet' = sendRet ELSE SendFail("BODY")
  /\ UNCHANGED <<others, to, i, conn, tls>>

\* lines 110-113
SendDataEnd ==
  /\ pc = "DataEnd"
  /\ \E ok \in BOOLEAN :
       /\ Issue("DATAEND", <<>>, ok)
       /\ IF ok THEN pc' = "Quit" /\ sendRet' = sendRet ELSE SendFail("DATAEND")
  /\ UNCHANGED <<others, body, to, i, wire, conn, tls>>

\* Quit's error dropped
QuitResult_Dropped(ok) == Nil

QuitResult(ok) == IF ok THEN Nil ELSE Err("QUIT")

\* line 115: smtp.Client.Quit closes the connection once the server answered
SendQuit ==
  /\ pc = "Quit"
  /\ \E ok \in BOOLEAN :
       /\ Issue("QUIT", <<>>, ok)
       /\ sendRet' = QuitResult(ok)
       /\ conn' = IF ok THEN "closed" ELSE conn
  /\ pc' = "Defer"
  /\ UNCHANGED <<others, body, to, i, wire, tls>>

\* the defer of line 68 left out
DeferClose_Missing == conn

DeferClose == "closed"

\* line 68: the deferred client.Close()
SendDefer ==
  /\ pc = "Defer"
  /\ conn' = DeferClose
  /\ pc' = "SendRet"
  /\ UNCHANGED <<others, body, to, i, log, wire, tls, sendRet>>

\* ---------------------------------------------------------------- files
memMaxSize == 10485760
Missing == -1
ContentText == <<"h", "e", "l", "l", "o">>
SmallFile == Len(ContentText)
BigFile == memMaxSize - SmallFile
PathT == <<"t">>
PathP == <<"p">>
PathPP == <<"p", "p">>
PathChars == {"p", Comma}

\* os.Lstat / os.Open of a path: its size, Missing when there is no such file
FileSize(path) == IF path \in DOMAIN fs THEN fs[path] ELSE Missing

\* ---------------------------------------------------------------- MailConfig.Len
RECURSIVE SumSizes(_, _, _)
\* lines 228-234: the loop over the attachment paths, from index k with sum l
SumSizes(paths, k, l) ==
  IF k > Len(paths) THEN [n |-> l, err |-> FALSE]
  ELSE IF FileSize(paths[k]) = Missing THEN [n |-> 0, err |-> TRUE]
  ELSE SumSizes(paths, k + 1, l + FileSize(paths[k]))

\* lines 227-236
LenAttachments(e, l) ==
  IF e.Attachments # <<>> THEN SumSizes(Split(e.Attachments), 1, l)
  ELSE [n |-> l, err |-> FALSE]

\* lines 214-238
MailLen(e) ==
  IF e.Content # <<>> THEN LenAttachments(e, Len(e.Content))
  ELSE IF e.ContentPath # <<>>
       THEN IF FileSize(e.ContentPath) = Missing THEN [n |-> 0, err |-> TRUE]
            ELSE LenAttachments(e, FileSize(e.ContentPath))
       ELSE [n |-> 0, err |-> FALSE]

\* ---------------------------------------------------------------- MailConfig.Writer
\* io.Writer.Write on the sink: an *os.File advances its offset, a
\* bytes.Buffer keeps its read offset.
Emit(b, toks) ==
  [b EXCEPT !.data = @ \o toks,
            !.off = IF b.kind = "osfile" THEN Len(b.data) + Len(toks) ELSE @]

Perms(S) ==
  {f \in [1..Cardinality(S) -> S] : \A x \in S : \E k \in 1..Cardinality(S) : f[k] = x}

\* lines 128-142, and line 152: the header map, name -> value
TopHeaders(e) ==
  LET names == (IF Len(e.To) > 0 THEN {"To"} ELSE {})
                 \cup (IF e.Subject # "" THEN {"Subject"} ELSE {})
                 \cup {"From", "Content-Type"}
  IN [n \in names |->
        CASE n = "To" -> e.To
          [] n = "Subject" -> <<e.Subject>>
          [] n = "From" -> <<e.From>>
          [] n = "Content-Type" -> <<"multipart/mixed", "outer">>]

\* lines 239-253: one line per header, in the order the map is ranged over
headerToBytes(header, order) ==
  [k \in 1..Len(order) |->
     <<"hdr", order[k],
       IF order[k] \in {"Content-Type", "Content-Disposition"} THEN "raw" ELSE "q",
       header[order[k]]>>]

\* multipart.Writer.CreatePart: the opening delimiter, the part's headers
\* (sorted by name) and the blank line
CreatePart(boundary, hdrs) == <<<<"open", boundary>>>> \o hdrs \o <<<<"blank">>>>

\* multipart.Writer.Close: the closing delimiter
CloseBoundary(boundary) == <<<<"close", boundary>>>>

\* lines 163-164, 176-177: the text part's headers
TextHeaders ==
  << <<"hdr", "Content-Transfer-Encoding", "raw", <<"quoted-printable">>>>,
     <<"hdr", "Content-Type", "raw", <<"text">>>> >>

\* lines 257-267: the attachment part's headers
AttachHeaders(path) ==
  << <<"hdr", "Content-Disposition", "raw", path>>,
     <<"hdr", "Content-Id", "raw", path>>,
     <<"hdr", "Content-Transfer-Encoding", "raw", <<"base64">>>>,
     <<"hdr", "Content-Type", "raw", path>> >>

\* ---- the sink as an io.Writer that can fail (a full disk, a closed file)
NoLimit == -1

\* one Write call: everything is written, or what still fits and an error
SinkWrite(b, r, toks) ==
  IF r = NoLimit \/ Len(toks) <= r
  THEN [b |-> Emit(b, toks),
        room |-> IF r = NoLimit THEN r ELSE r - Len(toks),
        ok |-> TRUE]
  ELSE [b |-> Emit(b, SubSeq(toks, 1, r)), room |-> 0, ok |-> FALSE]

\* line 210 (and line 200 when there is no attachment)
WriterDone == Nil

\* lines 196-199
CloseInner == CloseBoundary("inner")

\* lines 146-156: the top-level headers, the blank line, the first delimiter;
\* none of these writes is checked
WriterHead ==
  /\ pc = "WHead"
  /\ LET h == TopHeaders(msg)
     IN \E order \in Perms(DOMAIN h) :
          LET w == SinkWrite(body, room, headerToBytes(h, order)
                                           \o <<<<"blank">>, <<"open", "outer">>>>)
          IN /\ body' = w.b
             /\ room' = w.room
             /\ sinkErr' = (sinkErr \/ ~w.ok)
  /\ pc' = "WBody"
  /\ UNCHANGED <<envVars, sendVars, runVars, list, j, writerRet, partErr, b64Vars>>

\* lines 200-201: the entry of the attachment loop, or `return nil`
EnterAttachments ==
  /\ list' = Split(msg.Attachments)
  /\ j' = 1
  /\ writerRet' = IF msg.Attachments = <<>> THEN WriterDone ELSE writerRet
  /\ pc' = IF msg.Attachments = <<>> THEN "WriterRet" ELSE "WAttach"

\* `return err` in Writer
WriterFail(what) ==
  /\ writerRet' = Err(what)
  /\ pc' = "WriterRet"
  /\ UNCHANGED <<list, j>>

\* lines 157-201: the alternative part; then the entry of the attachment loop.
\* The header of line 161 is written unchecked; CreatePart, the
\* quoted-printable writer and subWriter.Close return their write errors.
WriterBody ==
  /\ pc = "WBody"
  /\ LET alt == <<<<"hdr", "Content-Type", "raw", <<"multipart/alternative", "inner">>>>>>
         noFile == msg.Content = <<>> /\ FileSize(msg.ContentPath) = Missing
         w1 == SinkWrite(body, room, alt)
         w2 == SinkWrite(w1.b, w1.room, CreatePart("inner", TextHeaders))
         w3 == SinkWrite(w2.b, w2.room,
                         <<<<"qp", IF msg.Content # <<>> THEN msg.Content
                                   ELSE msg.ContentPath>>>>)
         w4 == SinkWrite(w3.b, w3.room, CloseInner)
     IN IF msg.Content # <<>> \/ msg.ContentPath # <<>>
        THEN IF ~w2.ok
             THEN /\ body' = w2.b /\ room' = w2.room /\ sinkErr' = TRUE
                  /\ WriterFail("write")
             ELSE IF noFile
             THEN /\ body' = w2.b /\ room' = w2.room
                  /\ sinkErr' = (sinkErr \/ ~w1.ok)
                  /\ WriterFail("open")
             ELSE IF ~w3.ok
             THEN /\ body' = w3.b /\ room' = w3.room /\ sinkErr' = TRUE
                  /\ WriterFail("write")
             ELSE IF ~w4.ok
             THEN /\ body' = w4.b /\ room' = w4.room /\ sinkErr' = TRUE
                  /\ WriterFail("write")
             ELSE /\ body' = w4.b /\ room' = w4.room
                  /\ sinkErr' = (sinkErr \/ ~w1.ok)
                  /\ EnterAttachments
        ELSE /\ UNCHANGED <<body, room, sinkErr>>
             /\ EnterAttachments
  /\ UNCHANGED <<envVars, sendVars, runVars, partErr, b64Vars>>

\* line 205: w.Close() on the error path, its result dropped; Close returns
\* the last part's write error before it writes the closing delimiter
CloseOuter(b, r, perr) ==
  IF perr THEN [b |-> b, room |-> r, ok |-> FALSE]
  ELSE SinkWrite(b, r, CloseBoundary("outer"))

\* lines 202-210 and attach, lines 256-279: one iteration of the loop.
\* attach returns the error of os.Open and of CreatePart (which first
\* returns the write error kept by the part before); base64Wrap drops the
\* errors of its writes, the part keeps them.
WriterAttach ==
  /\ pc = "WAttach"
  /\ LET wp == SinkWrite(body, room, CreatePart("outer", AttachHeaders(list[j])))
         wb == SinkWrite(wp.b, wp.room, <<<<"b64", list[j]>>>>)
         c0 == CloseOuter(body, room, partErr)
         c1 == CloseOuter(wp.b, wp.room, FALSE)
     IN IF FileSize(list[j]) = Missing
        THEN /\ body' = c0.b /\ room' = c0.room
             /\ sinkErr' = (sinkErr \/ ~c0.ok)
             /\ WriterFail("attach")
             /\ partErr' = partErr
        ELSE IF partErr
        THEN /\ UNCHANGED <<body, room, sinkErr, partErr>>
             /\ WriterFail("attach")
        ELSE IF ~wp.ok
        THEN /\ body' = c1.b /\ room' = c1.room /\ sinkErr' = TRUE
             /\ WriterFail("attach")
             /\ partErr' = partErr
        ELSE /\ body' = wb.b /\ room' = wb.room
             /\ sinkErr' = (sinkErr \/ ~wb.ok)
             /\ partErr' = ~wb.ok
             /\ list' = list
             /\ j' = j + 1
             /\ writerRet' = IF j + 1 > Len(list) THEN WriterDone ELSE writerRet
             /\ pc' = IF j + 1 > Len(list) THEN "WriterRet" ELSE "WAttach"
  /\ UNCHANGED <<envVars, sendVars, runVars, b64Vars>>

\* ---------------------------------------------------------------- MailRun
\* lines 24-26
RunCheck ==
  /\ pc = "Run"
  /\ IF msg.User = "" \/ msg.Passwd = "" \/ msg.From = "" \/ msg.To = <<>>
     THEN runRet' = Err("config") /\ pc' = "RunRet"
     ELSE runRet' = runRet /\ pc' = "RunLen"
  /\ UNCHANGED <<envVars, body, sendVars, size, tmp, handle, wrVars, b64Vars>>

\* lines 29-32: what MailRun returns when Len fails
LenFailure == Nil

\* lines 28-32
RunLen ==
  /\ pc = "RunLen"
  /\ LET r == MailLen(msg)
     IN IF r.err
        THEN runRet' = LenFailure /\ pc' = "RunRet" /\ size' = size
        ELSE runRet' = runRet /\ pc' = "RunSink" /\ size' = r.n
  /\ UNCHANGED <<envVars, body, sendVars, tmp, handle, wrVars, b64Vars>>

UseTempFile_Strict(n) == n > memMaxSize

\* line 35: the estimate that sends the payload to a temporary file
UseTempFile(n) == n >= memMaxSize

\* lines 34-44: the sink is chosen here and nowhere else. A bytes.Buffer
\* takes every write; a temporary file takes what the disk has room for.
RunSink ==
  /\ pc = "RunSink"
  /\ IF UseTempFile(size)
     THEN \E ok \in BOOLEAN :
            IF ok
            THEN /\ body' = [kind |-> "osfile", data |-> <<>>, off |-> 0]
                 /\ tmp' = "present"
                 /\ handle' = "open"
                 /\ pc' = "WHead"
                 /\ UNCHANGED <<runRet, room>>
            ELSE /\ runRet' = Err("create")
                 /\ pc' = "RunRet"
                 /\ UNCHANGED <<body, tmp, handle, room>>
     ELSE /\ body' = [kind |-> "buffer", data |-> <<>>, off |-> 0]
          /\ pc' = "WHead"
          /\ room' = NoLimit
          /\ UNCHANGED <<tmp, handle, runRet>>
  /\ UNCHANGED <<envVars, sendVars, size, list, j, writerRet, sinkErr, partErr, b64Vars>>

\* lines 45-50
RunCompose ==
  /\ pc = "WriterRet"
  /\ entry = "MailRun"
  /\ IF writerRet # Nil
     THEN runRet' = Err("compose") /\ pc' = "RunDefer"
     ELSE runRet' = runRet /\ pc' = "Send"
  /\ UNCHANGED <<envVars, body, sendVars, size, tmp, handle, wrVars, b64Vars>>

\* lines 51-55
RunSent ==
  /\ pc = "SendRet"
  /\ entry = "MailRun"
  /\ handle' = IF body.kind = "osfile" THEN "closed" ELSE handle
  /\ runRet' = sendRet
  /\ pc' = "RunDefer"
  /\ UNCHANGED <<envVars, body, sendVars, size, tmp, wrVars, b64Vars>>

DeferRemove_Missing(t) == t

\* line 41: os.Remove(temp) unlinks the file if MailRun created it
DeferRemove(t) == IF t = "present" THEN "removed" ELSE t

\* line 41: the deferred os.Remove(temp), registered once the file exists
RunDefer ==
  /\ pc = "RunDefer"
  /\ tmp' = DeferRemove(tmp)
  /\ pc' = "RunRet"
  /\ UNCHANGED <<envVars, body, sendVars, size, handle, runRet, wrVars, b64Vars>>

\* ---------------------------------------------------------------- base64Wrap
maxRaw == 57
MaxLineLength == 76
Pad == 64              \* '=' ; 0..63 are the characters of the base64 alphabet
CR == 65
LF == 66
Nul == 67              \* the zero byte of a fresh buffer
CRLF == <<CR, LF>>

\* base64.StdEncoding.EncodedLen
EncodedLen(n) == ((n + 2) \div 3) * 4

\* base64.StdEncoding.Encode: 3 bytes to 4 characters, the tail padded
RECURSIVE Encode(_)
Encode(b) ==
  IF Len(b) = 0 THEN <<>>
  ELSE IF Len(b) = 1
       THEN <<b[1] \div 4, (b[1] % 4) * 16, Pad, Pad>>
  ELSE IF Len(b) = 2
       THEN <<b[1] \div 4, (b[1] % 4) * 16 + b[2] \div 16, (b[2] % 16) * 4, Pad>>
  ELSE <<b[1] \div 4, (b[1] % 4) * 16 + b[2] \div 16,
         (b[2] % 16) * 4 + b[3] \div 64, b[3] % 64>>
         \o Encode(SubSeq(b, 4, Len(b)))

\* r.Read(b) with rem bytes left: a regular file fills b when it can, any
\* io.Reader may return fewer bytes
ReadCounts(rem) ==
  {IF rem < maxRaw THEN rem ELSE maxRaw}
    \cup (IF rem > ShortRead THEN {ShortRead} ELSE {})

\* line 289: b after a read of n bytes; the bytes past n stay as they were
ReadInto(b, n) == [k \in 1..Len(b) |-> IF k <= n THEN src[rd + k] ELSE b[k]]

\* lines 285-286: the line buffer, 76 characters and the CRLF behind them
LineBuffer ==
  [k \in 1..(MaxLineLength + Len(CRLF)) |->
     IF k <= MaxLineLength THEN Nul ELSE CRLF[k - MaxLineLength]]

\* base64.StdEncoding.Encode(dst, b): the head of dst overwritten
EncodeInto(dst, b) ==
  LET e == Encode(b)
  IN [k \in 1..Len(dst) |-> IF k <= EncodedLen(Len(b)) THEN e[k] ELSE dst[k]]

\* lines 296-304: the line written for a read of n bytes into b; a short
\* read encodes the whole array b into buffer[:EncodedLen(len(b))]
WrapLine(b, n) ==
  IF n = maxRaw
  THEN EncodeInto(LineBuffer, SubSeq(b, 1, n))
  ELSE EncodeInto(SubSeq(LineBuffer, 1, EncodedLen(Len(b))), b) \o CRLF

\* lines 288-305: one iteration of the loop
B64Step ==
  /\ pc = "B64Read"
  /\ IF rd = Len(src)
     THEN /\ b64Ret' = Nil
          /\ pc' = "B64Ret"
          /\ UNCHANGED <<rd, buf, out>>
     ELSE \/ \E n \in ReadCounts(Len(src) - rd) :
               /\ buf' = ReadInto(buf, n)
               /\ rd' = rd + n
               /\ out' = out \o WrapLine(buf', n)
               /\ UNCHANGED <<b64Ret, pc>>
          \/ /\ b64Ret' = Err("read")
             /\ pc' = "B64Ret"
             /\ UNCHANGED <<rd, buf, out>>
  /\ UNCHANGED <<envVars, body, sendVars, runVars, wrVars, src>>

\* ---------------------------------------------------------------- MailSend called by any caller
FromSet == {"", "a"}
ToSet == SeqsUpTo(ToChars, MaxToLen)

BodySet ==
  {[kind |-> kd, data |-> RawBody(n), off |-> o] :
     kd \in {"reader", "seeker"}, n \in 0..MaxBody, o \in 0..MaxBody}

SendIdle ==
  /\ to = <<>>
  /\ i = 0
  /\ log = <<>>
  /\ wire = <<>>
  /\ conn = "none"
  /\ tls = FALSE
  /\ sendRet = NoRet

RunIdle ==
  /\ size = 0
  /\ tmp = "none"
  /\ handle = "none"
  /\ runRet = NoRet

WriterIdle ==
  /\ list = <<>>
  /\ j = 0
  /\ writerRet = NoRet
  /\ sinkErr = FALSE
  /\ partErr = FALSE

CallerIdle ==
  /\ first = <<>>
  /\ round = 1

\* no second goroutine, no temporary file in the working directory
ConcIdle ==
  /\ cpc = <<>>
  /\ cfile = <<>>
  /\ coff = <<>>
  /\ csent = <<>>
  /\ dirent = 0
  /\ idata = <<>>

B64Idle ==
  /\ src = <<>>
  /\ rd = 0
  /\ buf = <<>>
  /\ out = <<>>
  /\ b64Ret = NoRet

NoFiles == [p \in {} |-> Missing]

Init ==
  /\ entry = "MailSend"
  /\ msg \in [User : {"u"}, Passwd : {"s"}, From : FromSet, To : ToSet,
               Subject : {""}, Content : {<<>>}, ContentPath : {<<>>},
               Attachments : {<<>>}]
  /\ starttls \in BOOLEAN
  /\ fs = NoFiles
  /\ body \in {b \in BodySet : b.off <= Len(b.data)}
  /\ pc = "Send"
  /\ room = NoLimit
  /\ SendIdle /\ RunIdle /\ WriterIdle /\ B64Idle /\ CallerIdle /\ ConcIdle

Next ==
  \/ SendEntry
  \/ SendDial
  \/ SendHello
  \/ SendStartTLS
  \/ SendAuth
  \/ SendMail
  \/ SendRcpt
  \/ SendData
  \/ SendCopy
  \/ SendDataEnd
  \/ SendQuit
  \/ SendDefer

Spec == Init /\ [][Next]_vars

\* ---------------------------------------------------------------- MailRun called
AttSet == SeqsUpTo(PathChars, MaxAttLen)

FsSet ==
  {f \in [{PathT, PathP, PathPP} -> {Missing, SmallFile, BigFile}] :
     /\ f[PathT] \in {Missing, SmallFile}
     /\ f[PathP] \in {SmallFile, BigFile}
     /\ f[PathPP] = SmallFile}

InitRun ==
  /\ entry = "MailRun"
  /\ msg \in [User : {"", "u"}, Passwd : {"", "s"}, From : FromSet,
               To : {<<>>, <<"b">>}, Subject : {""},
               Content : {<<>>, ContentText}, ContentPath : {<<>>, PathT},
               Attachments : AttSet]
  /\ starttls \in BOOLEAN
  /\ fs \in FsSet
  /\ body = [kind |-> "none", data |-> <<>>, off |-> 0]
  /\ pc = "Run"
  /\ room \in {NoLimit, MaxRoom}
  /\ SendIdle /\ RunIdle /\ WriterIdle /\ B64Idle /\ CallerIdle /\ ConcIdle

NextRun ==
  \/ RunCheck
  \/ RunLen
  \/ RunSink
  \/ WriterHead
  \/ WriterBody
  \/ WriterAttach
  \/ RunCompose
  \/ SendEntry
  \/ SendDial
  \/ SendHello
  \/ SendStartTLS
  \/ SendAuth
  \/ SendMail
  \/ SendRcpt
  \/ SendData
  \/ SendCopy
  \/ SendDataEnd
  \/ SendQuit
  \/ SendDefer
  \/ RunSent
  \/ RunDefer

SpecRun == InitRun /\ [][NextRun]_vars

\* ---------------------------------------------------------------- Writer called
InitWriter ==
  /\ entry = "Writer"
  /\ msg \in [User : {"u"}, Passwd : {"s"}, From : FromSet,
               To : {<<>>, <<"b">>}, Subject : {"", "s"},
               Content : {<<>>, ContentText}, ContentPath : {<<>>, PathT},
               Attachments : AttSet]
  /\ starttls = FALSE
  /\ fs \in FsSet
  /\ body = [kind |-> "buffer", data |-> <<>>, off |-> 0]
  /\ pc = "WHead"
  /\ room = NoLimit
  /\ SendIdle /\ RunIdle /\ WriterIdle /\ B64Idle /\ CallerIdle /\ ConcIdle

NextWriter ==
  \/ WriterHead
  \/ WriterBody
  \/ WriterAttach

SpecWriter == InitWriter /\ [][NextWriter]_vars

\* ------------------------------------------- Writer called on a sink that fills up
InitSink ==
  /\ entry = "Writer"
  /\ msg \in [User : {"u"}, Passwd : {"s"}, From : FromSet,
               To : {<<>>, <<"b">>}, Subject : {""},
               Content : {<<>>, ContentText}, ContentPath : {<<>>, PathT},
               Attachments : {<<>>, PathP, PathPP}]
  /\ starttls = FALSE
  /\ fs \in FsSet
  /\ body = [kind |-> "osfile", data |-> <<>>, off |-> 0]
  /\ pc = "WHead"
  /\ room \in (0..MaxRoom) \cup {NoLimit}
  /\ SendIdle /\ RunIdle /\ WriterIdle /\ B64Idle /\ CallerIdle /\ ConcIdle

SpecSink == InitSink /\ [][NextWriter]_vars

\* --------------------------------------- Writer called twice on one MailConfig
\* The caller keeps the first payload and calls Writer again, with the same
\* MailConfig and a new, empty sink.
ComposeAgain ==
  /\ pc = "WriterRet"
  /\ entry = "WriterTwice"
  /\ round = 1
  /\ first' = body.data
  /\ round' = 2
  /\ body' = [kind |-> "buffer", data |-> <<>>, off |-> 0]
  /\ pc' = "WHead"
  /\ list' = <<>>
  /\ j' = 0
  /\ writerRet' = NoRet
  /\ UNCHANGED <<entry, msg, starttls, fs, concVars, sendVars, runVars, room,
                 sinkErr, partErr, src, rd, buf, out, b64Ret>>

InitTwice ==
  /\ entry = "WriterTwice"
  /\ msg \in [User : {"u"}, Passwd : {"s"}, From : FromSet,
               To : {<<>>, <<"b">>}, Subject : {"", "s"},
               Content : {<<>>, ContentText}, ContentPath : {<<>>},
               Attachments : {<<>>, PathP}]
  /\ starttls = FALSE
  /\ fs \in {f \in FsSet : f[PathT] = SmallFile /\ f[PathP] = SmallFile}
  /\ body = [kind |-> "buffer", data |-> <<>>, off |-> 0]
  /\ pc = "WHead"
  /\ room = NoLimit
  /\ SendIdle /\ RunIdle /\ WriterIdle /\ B64Idle /\ CallerIdle /\ ConcIdle

NextTwice ==
  \/ WriterHead
  \/ WriterBody
  \/ WriterAttach
  \/ ComposeAgain

SpecTwice == InitTwice /\ [][NextTwice]_vars

\* ------------------------------------------- two MailRun calls in one process
\* Two goroutines of one process call MailRun, each with a message whose
\* estimate sends it to a temporary file. Both compute the same name from
\* os.Getpid() (line 36). Files follow POSIX: a name refers to an inode, an
\* open file keeps its inode when the name is removed, os.Create truncates
\* the inode an existing name refers to.
Procs == {1, 2}
seqVars == <<entry, msg, starttls, fs, callerVars, body, pc, sendVars, runVars,
             wrVars, b64Vars>>

\* the k-th write of goroutine p's Writer
FileChunk(p, k) == <<"w", p, k>>
\* a byte of a hole, read as zero
Hole == <<"w", 0, 0>>

\* (*os.File).Write of one chunk at offset o into content d
WriteAt(d, o, t) ==
  [k \in 1..(IF Len(d) > o + 1 THEN Len(d) ELSE o + 1) |->
     IF k = o + 1 THEN t ELSE IF k <= Len(d) THEN d[k] ELSE Hole]

\* lines 35-41: temp := fmt.Sprintf(".%d.tmp", os.Getpid()); os.Create(temp)
ConcCreate ==
  \E p \in Procs :
    /\ cpc[p] = "Create"
    /\ UseTempFile(MailLen(msg).n)
    /\ IF dirent = 0
       THEN /\ idata' = Append(idata, <<>>)
            /\ dirent' = Len(idata) + 1
       ELSE /\ idata' = [idata EXCEPT ![dirent] = <<>>]
            /\ dirent' = dirent
    /\ cfile' = [cfile EXCEPT ![p] = dirent']
    /\ coff' = [coff EXCEPT ![p] = 0]
    /\ cpc' = [cpc EXCEPT ![p] = "Write"]
    /\ UNCHANGED <<seqVars, csent>>

\* line 45: Writer writes its chunks through the goroutine's own *os.File
ConcWrite ==
  \E p \in Procs :
    /\ cpc[p] = "Write"
    /\ idata' = [idata EXCEPT ![cfile[p]] = WriteAt(@, coff[p], FileChunk(p, coff[p] + 1))]
    /\ coff' = [coff EXCEPT ![p] = @ + 1]
    /\ cpc' = [cpc EXCEPT ![p] = IF coff[p] + 1 = MaxChunks THEN "Send" ELSE "Write"]
    /\ UNCHANGED <<seqVars, cfile, csent, dirent>>

\* line 51 and lines 101-105: MailSend rewinds the file and streams it
ConcSend ==
  \E p \in Procs :
    /\ cpc[p] = "Send"
    /\ csent' = [csent EXCEPT ![p] = idata[cfile[p]]]
    /\ coff' = [coff EXCEPT ![p] = Len(idata[cfile[p]])]
    /\ cpc' = [cpc EXCEPT ![p] = "Close"]
    /\ UNCHANGED <<seqVars, cfile, dirent, idata>>

\* lines 52-54
ConcClose ==
  \E p \in Procs :
    /\ cpc[p] = "Close"
    /\ cfile' = [cfile EXCEPT ![p] = 0]
    /\ cpc' = [cpc EXCEPT ![p] = "Remove"]
    /\ UNCHANGED <<seqVars, coff, csent, dirent, idata>>

\* line 41: the deferred os.Remove(temp) removes whatever has that name
ConcRemove ==
  \E p \in Procs :
    /\ cpc[p] = "Remove"
    /\ dirent' = 0
    /\ cpc' = [cpc EXCEPT ![p] = "Done"]
    /\ UNCHANGED <<seqVars, cfile, coff, csent, idata>>

InitConc ==
  /\ entry = "MailRun, twice"
  /\ msg \in [User : {"u"}, Passwd : {"s"}, From : {"a"}, To : {<<"b">>},
               Subject : {"", "s"}, Content : {ContentText}, ContentPath : {<<>>},
               Attachments : {PathP}]
  /\ starttls = FALSE
  /\ fs \in {f \in FsSet : f[PathP] = BigFile}
  /\ body = [kind |-> "none", data |-> <<>>, off |-> 0]
  /\ pc = "Concurrent"
  /\ room = NoLimit
  /\ SendIdle /\ RunIdle /\ WriterIdle /\ B64Idle /\ CallerIdle
  /\ cpc = [p \in Procs |-> "Create"]
  /\ cfile = [p \in Procs |-> 0]
  /\ coff = [p \in Procs |-> 0]
  /\ csent = [p \in Procs |-> NoRet]
  /\ dirent = 0
  /\ idata = <<>>

NextConc ==
  \/ ConcCreate
  \/ ConcWrite
  \/ ConcSend
  \/ ConcClose
  \/ ConcRemove

SpecConc == InitConc /\ [][NextConc]_vars

\* ---------------------------------------------------------------- base64Wrap called
\* The bytes of a file of n bytes: no two neighbours alike, none zero.
FileBytes(n, seed) == [k \in 1..n |-> 1 + ((seed + 37 * k) % 255)]

InitB64 ==
  /\ entry = "base64Wrap"
  /\ msg = [User |-> "", Passwd |-> "", From |-> "", To |-> <<>>, Subject |-> "",
            Content |-> <<>>, ContentPath |-> <<>>, Attachments |-> <<>>]
  /\ starttls = FALSE
  /\ fs = NoFiles
  /\ body = [kind |-> "none", data |-> <<>>, off |-> 0]
  /\ pc = "B64Read"
  /\ room = NoLimit
  /\ SendIdle /\ RunIdle /\ WriterIdle /\ CallerIdle /\ ConcIdle
  /\ src \in {FileBytes(n, seed) : n \in 0..MaxFileLen, seed \in {0, 101}}
  /\ rd = 0
  /\ buf = [k \in 1..maxRaw |-> 0]
  /\ out = <<>>
  /\ b64Ret = NoRet

NextB64 == B64Step

SpecB64 == InitB64 /\ [][NextB64]_vars

\* ================================================================ properties
\* The claims read the log of exchanges; the recipients are taken from the
\* To string by position, independently of the code's Split.
CommaAt(s) == {p \in 1..Len(s) : s[p] = Comma}
NumFields(s) == Cardinality(CommaAt(s)) + 1
KthComma(s, k) ==
  CHOOSE p \in CommaAt(s) : Cardinality({q \in CommaAt(s) : q <= p}) = k
Recipient(s, k) ==
  SubSeq(s,
         IF k = 1 THEN 1 ELSE KthComma(s, k - 1) + 1,
         IF k = NumFields(s) THEN Len(s) ELSE KthComma(s, k) - 1)

Issued(cmd) == \E k \in 1..Len(log) : log[k].cmd = cmd
Succeeded(cmd) == \E k \in 1..Len(log) : log[k].cmd = cmd /\ log[k].ok
CountOf(cmd) == Cardinality({k \in 1..Len(log) : log[k].cmd = cmd})
Returned == pc = "SendRet"

ExpectedSteps ==
  <<<<"DIAL", <<>>>>, <<"HELO", <<>>>>>>
    \o (IF starttls THEN <<<<"STARTTLS", <<>>>>>> ELSE <<>>)
    \o <<<<"AUTH", <<>>>>, <<"MAIL", <<msg.From>>>>>>
    \o [k \in 1..NumFields(msg.To) |-> <<"RCPT", Recipient(msg.To, k)>>]
    \o <<<<"DATA", <<>>>>, <<"BODY", <<>>>>, <<"DATAEND", <<>>>>, <<"QUIT", <<>>>>>>

\* C1: the exchanges of MailSend are a prefix of Dial, Hello, [StartTLS],
\* Auth, Mail, one Rcpt per recipient in list order, Data, body, data close,
\* Quit; every exchange but the last one issued has succeeded; no body byte
\* is on the wire unless the Data command succeeded.
C1_StepOrder ==
  /\ Len(log) <= Len(ExpectedSteps)
  /\ \A k \in 1..Len(log) : <<log[k].cmd, log[k].arg>> = ExpectedSteps[k]
  /\ \A k \in 1..(Len(log) - 1) : log[k].ok
  /\ wire # <<>> => Succeeded("DATA")

C1_Witness ==
  /\ Returned /\ sendRet = Nil
  /\ Len(log) = Len(ExpectedSteps)
  /\ starttls /\ NumFields(msg.To) >= 2 /\ to[1] # to[2]
  /\ wire # <<>>

\* C2 as stated: whenever MailSend returns after a successful Dial, a QUIT
\* was issued and the return value is the result of that Quit.
C2_QuitAlways ==
  (Returned /\ Succeeded("DIAL")) =>
    /\ Issued("QUIT")
    /\ sendRet = IF Succeeded("QUIT") THEN Nil ELSE Err("QUIT")

\* C2 amended: when MailSend returns after a successful Dial, a QUIT was
\* issued if and only if every earlier step up to the data close succeeded;
\* then it was issued once, last, and the return value is its result;
\* otherwise the return value is the error of the step that failed, which is
\* the last exchange.
C2_QuitOnSuccess ==
  (Returned /\ Succeeded("DIAL")) =>
    LET last == log[Len(log)]
    IN /\ Issued("QUIT") <=> Succeeded("DATAEND")
       /\ Issued("QUIT") =>
            /\ last.cmd = "QUIT" /\ CountOf("QUIT") = 1
            /\ sendRet = IF last.ok THEN Nil ELSE Err("QUIT")
       /\ ~Issued("QUIT") => ~last.ok /\ sendRet = Err(last.cmd)

C2_Witness == Returned /\ Issued("QUIT") /\ sendRet = Err("QUIT")

\* C3: once MailSend has returned after a successful Dial, the connection
\* is closed, whatever step failed.
C3_ClosedOnReturn == (Returned /\ Succeeded("DIAL")) => conn = "closed"

C3_Witness == Returned /\ sendRet = Err("AUTH") /\ conn = "closed"

\* C4: with an empty sender or an empty To, no Dial is ever issued and
\* MailSend returns an error.
C4_NoDialWithoutAddresses ==
  (msg.From = "" \/ msg.To = <<>>) =>
    /\ ~Issued("DIAL")
    /\ Returned => sendRet # Nil

\* C5: when the server rejects a Rcpt, that Rcpt is the last exchange, it is
\* the n-th Rcpt for the n-th recipient, no Data is issued, no body byte is
\* streamed, MailSend returns the error and the connection is closed.
C5_RcptAbort ==
  \A k \in 1..Len(log) :
    (log[k].cmd = "RCPT" /\ ~log[k].ok) =>
      /\ k = Len(log)
      /\ log[k].arg = Recipient(msg.To, CountOf("RCPT"))
      /\ ~Issued("DATA") /\ wire = <<>>
      /\ pc \in {"Defer", "SendRet"}
      /\ sendRet = Err("RCPT")
      /\ Returned => conn = "closed"

C5_Witness ==
  /\ Returned /\ NumFields(msg.To) >= 3
  /\ CountOf("RCPT") = 2 /\ ~log[Len(log)].ok /\ conn = "closed"

\* C6: StartTLS is issued exactly when the server advertises STARTTLS; when
\* it fails it is the last exchange and MailSend returns its error; Auth is
\* never issued on a connection that should have been upgraded and was not.
C6_StartTLS ==
  /\ Issued("STARTTLS") => starttls
  /\ (starttls /\ Succeeded("HELO") /\ pc # "StartTLS") => Issued("STARTTLS")
  /\ \A k \in 1..Len(log) :
       (log[k].cmd = "STARTTLS" /\ ~log[k].ok) =>
         /\ k = Len(log)
         /\ pc \in {"Defer", "SendRet"}
         /\ sendRet = Err("STARTTLS")
  /\ (starttls /\ Issued("AUTH")) => tls

C6_Witness == Returned /\ sendRet = Err("STARTTLS") /\ ~tls

\* ---------------------------------------------------------------- composer
IsTok(t, kind, boundary) == Len(t) = 2 /\ t[1] = kind /\ t[2] = boundary
Opens(boundary) == {k \in 1..Len(body.data) : IsTok(body.data[k], "open", boundary)}
Closes(boundary) == {k \in 1..Len(body.data) : IsTok(body.data[k], "close", boundary)}

\* C7: when Writer has returned nil, every boundary that was opened in the
\* sink has exactly one closing delimiter, after all of its opening
\* delimiters, and the inner boundary is closed before the outer one.
C7_BoundariesClosed ==
  (pc = "WriterRet" /\ writerRet = Nil) =>
    /\ \A b \in {"outer", "inner"} :
         Opens(b) # {} =>
           /\ Cardinality(Closes(b)) = 1
           /\ \A o \in Opens(b), c \in Closes(b) : o < c
    /\ \A ci \in Closes("inner"), co \in Closes("outer") : ci < co

\* C11: when Writer has returned and a write to the sink failed at any point
\* of the composition, or the body file or an attachment file could not be
\* opened, Writer's return value is a non-nil error.
C11_ErrorOnFailedWrite ==
  (pc = "WriterRet" /\ entry = "Writer") =>
    /\ sinkErr => writerRet # Nil
    /\ (msg.Content = <<>> /\ msg.ContentPath # <<>>
          /\ FileSize(msg.ContentPath) = Missing) => writerRet # Nil
    /\ (msg.Attachments # <<>>
          /\ \E k \in 1..Len(Split(msg.Attachments)) :
                FileSize(Split(msg.Attachments)[k]) = Missing) => writerRet # Nil

\* ---------------------------------------------------------------- MailRun's sink
RECURSIVE AttachmentTotal(_)
\* the sizes of the files named by the first k fields of Attachments, summed
AttachmentTotal(k) ==
  IF k = 0 THEN 0
  ELSE FileSize(Recipient(msg.Attachments, k)) + AttachmentTotal(k - 1)

ContentLength ==
  IF msg.Content # <<>> THEN Len(msg.Content)
  ELSE IF msg.ContentPath # <<>> THEN FileSize(msg.ContentPath)
  ELSE 0

AttachmentsExist ==
  msg.Attachments # <<>> =>
    \A k \in 1..NumFields(msg.Attachments) :
      FileSize(Recipient(msg.Attachments, k)) # Missing

\* C12: when Len has returned without error and every attachment file
\* exists, its result is the content
\* length (the length of Content, else the size of the ContentPath file, else
\* 0) plus the sum of the sizes of all attachment files; so a message with
\* no body and some attachments is estimated at the total of its attachments.
C12_LenIsTotal ==
  (pc = "RunSink" /\ AttachmentsExist) =>
    size = ContentLength
             + (IF msg.Attachments = <<>> THEN 0
                ELSE AttachmentTotal(NumFields(msg.Attachments)))

\* C13: the sink backing is a function of Len's estimate alone, a temporary
\* file exactly when the estimate is at least 10 MiB and a buffer otherwise,
\* it is chosen by the step before composition starts, and no later step of
\* Writer or MailSend changes it.
C13_SinkChosenOnce ==
  [][/\ (pc # "RunSink" /\ body.kind # "none") => body'.kind = body.kind
     /\ body'.kind # "none" =>
          body'.kind = IF size' >= 10 * 1024 * 1024 THEN "osfile" ELSE "buffer"
     /\ (pc = "RunSink" /\ pc' # "RunRet") =>
          /\ body.kind = "none" /\ body'.kind # "none"
          /\ body'.data = <<>> /\ pc' = "WHead"]_vars

\* an estimate of exactly 10 MiB went to a temporary file, which was sent
C13_Witness ==
  /\ size = 10 * 1024 * 1024
  /\ body.kind = "osfile"
  /\ pc = "RunRet"
  /\ runRet = Nil

\* C14: when the same MailConfig has been composed twice, each time into
\* its own empty sink, the second payload is the first one, token for
\* token (boundaries are compared by their role, not by their random value).
C14_SamePayload ==
  (entry = "WriterTwice" /\ round = 2 /\ pc = "WriterRet") => body.data = first

\* C15: in a MailRun, whichever backing the sink has, what MailSend has
\* streamed in the DATA phase is at every moment a prefix of what Writer
\* wrote into the sink, from its first byte on, and once the body copy has
\* succeeded it is the whole of it.
C15_StreamIsSink ==
  entry = "MailRun" =>
    /\ Len(wire) <= Len(body.data)
    /\ wire = SubSeq(body.data, 1, Len(wire))
    /\ Succeeded("BODY") => wire = body.data

\* a payload composed into the temporary file was streamed in full
C15_Witness ==
  /\ entry = "MailRun"
  /\ body.kind = "osfile"
  /\ Succeeded("BODY")
  /\ wire # <<>>
  /\ wire = body.data

\* C16: two concurrent MailRun calls of one process never have the same
\* file open as their sinks, neither removes the name while the file it
\* refers to is the other's open sink, and what each of them streams is what
\* its own Writer wrote.
C16_DistinctSinks ==
  entry = "MailRun, twice" =>
    /\ \A p, q \in Procs :
         (p # q /\ cfile[p] # 0 /\ cfile[q] # 0) => cfile[p] # cfile[q]
    /\ \A p \in Procs :
         cfile[p] # 0 => dirent = cfile[p]
    /\ \A p \in Procs :
         csent[p] # NoRet => csent[p] = [k \in 1..MaxChunks |-> FileChunk(p, k)]

\* C17: when MailRun has returned, a temporary file it created is no longer
\* on disk, whichever way MailRun ended: composition failed, an SMTP step
\* failed, or the message was sent.
C17_TempRemoved ==
  (entry = "MailRun" /\ pc = "RunRet") => tmp # "present"

\* MailRun composed into a temporary file, Writer failed, the file is gone
C17_Witness ==
  /\ entry = "MailRun"
  /\ pc = "RunRet"
  /\ tmp = "removed"
  /\ runRet = Err("compose")

\* C20: a temporary file MailRun opened is closed when MailRun has returned,
\* whichever way it ended, and it is never removed while it is still open.
C20_HandleClosed ==
  entry = "MailRun" =>
    /\ (pc = "RunRet" /\ handle # "none") => handle = "closed"
    /\ tmp = "removed" => handle = "closed"

\* ---------------------------------------------------------------- payload
Blanks == {k \in 1..Len(body.data) : body.data[k] = <<"blank">>}
\* the top-level header block ends at the first blank line
HeaderEnd == IF Blanks = {} THEN Len(body.data) + 1
             ELSE CHOOSE k \in Blanks : \A m \in Blanks : k <= m
IsHdr(t, name) == Len(t) = 4 /\ t[1] = "hdr" /\ t[2] = name
HasTopHeader(name) == \E k \in 1..(HeaderEnd - 1) : IsHdr(body.data[k], name)

\* C18: when Writer has returned, the payload has a top-level To header
\* exactly if To is non-empty, a top-level Subject header exactly if Subject
\* is non-empty and a top-level From header exactly if From is non-empty.
C18_HeaderIffNonEmpty ==
  (entry = "Writer" /\ pc = "WriterRet" /\ ~sinkErr) =>
    /\ HasTopHeader("To") <=> msg.To # <<>>
    /\ HasTopHeader("Subject") <=> msg.Subject # ""
    /\ HasTopHeader("From") <=> msg.From # ""

HasBody == msg.Content # <<>> \/ msg.ContentPath # <<>>
NumAttachments == IF msg.Attachments = <<>> THEN 0 ELSE NumFields(msg.Attachments)

\* C19: when Writer has returned nil, every opening delimiter of the outer
\* boundary is directly followed by a header line of its part, and there are
\* as many of them as parts: one for the body if there is one, plus one per
\* attachment.
C19_NoEmptyPart ==
  (entry = "Writer" /\ pc = "WriterRet" /\ writerRet = Nil /\ ~sinkErr) =>
    /\ Cardinality(Opens("outer")) = (IF HasBody THEN 1 ELSE 0) + NumAttachments
    /\ \A k \in Opens("outer") :
         k < Len(body.data) /\ Len(body.data[k + 1]) = 4 /\ body.data[k + 1][1] = "hdr"

\* ---------------------------------------------------------------- base64
LineEnds == {p \in 1..Len(out) : out[p] = LF}
NumLines == Cardinality(LineEnds)
KthLineEnd(k) == CHOOSE p \in LineEnds : Cardinality({q \in LineEnds : q <= p}) = k
\* the k-th line written, without its CRLF
Line(k) ==
  SubSeq(out, IF k = 1 THEN 1 ELSE KthLineEnd(k - 1) + 1, KthLineEnd(k) - 2)
\* the k-th 57-byte chunk of the file
Chunk(k) ==
  SubSeq(src, maxRaw * (k - 1) + 1,
         IF maxRaw * k < Len(src) THEN maxRaw * k ELSE Len(src))
WrapDone == pc = "B64Ret" /\ b64Ret = Nil

\* C8: when base64Wrap has returned nil on a file of L bytes, it has written
\* one CRLF-terminated line per 57-byte chunk and nothing else; a full chunk's
\* line is 76 characters, the line of a final chunk of L mod 57 bytes is
\* shorter and is the padded encoding of those bytes alone.
C8_WrappedLines ==
  WrapDone =>
    LET n == (Len(src) + maxRaw - 1) \div maxRaw
    IN /\ NumLines = n
       /\ Len(out) = IF n = 0 THEN 0 ELSE KthLineEnd(n)
       /\ \A k \in 1..n :
            /\ out[KthLineEnd(k) - 1] = CR
            /\ Line(k) = Encode(Chunk(k))
            /\ Len(Line(k)) = EncodedLen(Len(Chunk(k)))
            /\ Len(Chunk(k)) = maxRaw => Len(Line(k)) = MaxLineLength
            /\ Len(Chunk(k)) < maxRaw => Len(Line(k)) < MaxLineLength

\* base64 decoding of one line: 4 characters to 3 bytes, fewer when padded
RECURSIVE Decode(_)
Decode(c) ==
  IF Len(c) < 4 THEN <<>>
  ELSE (IF c[3] = Pad THEN <<c[1] * 4 + c[2] \div 16>>
        ELSE IF c[4] = Pad
             THEN <<c[1] * 4 + c[2] \div 16, (c[2] % 16) * 16 + c[3] \div 4>>
        ELSE <<c[1] * 4 + c[2] \div 16, (c[2] % 16) * 16 + c[3] \div 4,
               (c[3] % 4) * 64 + c[4]>>)
       \o Decode(SubSeq(c, 5, Len(c)))

RECURSIVE DecodeLines(_)
\* the decoded lines 1..k, concatenated
DecodeLines(k) == IF k = 0 THEN <<>> ELSE DecodeLines(k - 1) \o Decode(Line(k))

\* C9: when base64Wrap has returned nil, decoding the lines it wrote, in
\* order, gives back exactly the bytes of the file.
C9_RoundTrip == WrapDone => DecodeLines(NumLines) = src

\* ---------------------------------------------------------------- MailRun
\* C10: MailRun returns nil only when every step succeeded and the message
\* was sent (the session ran to a successful Quit with the whole sink on the
\* wire); a failed step makes it return a non-nil error.
C10_NilOnlyWhenSent ==
  (pc = "RunRet" /\ runRet = Nil) =>
    /\ Succeeded("QUIT")
    /\ wire = body.data

====
